---- MODULE Spec2Model ----
(***************************************************************************)
(* Model of src/src/grafimo/utils.py (GRAFIMO auxiliary functions).        *)
(*                                                                         *)
(* The module is a library of functions without shared state.  A behaviour *)
(* of the model is one call: Init draws the function and its arguments     *)
(* from bounded sets, the function's action applies it and records what    *)
(* the caller observes (a returned value, a raised exception, or the       *)
(* termination of the process).                                            *)
(***************************************************************************)
EXTENDS Integers, Sequences, FiniteSets

VARIABLES op, args, pc, ret

vars == <<op, args, pc, ret>>

----------------------------------------------------------------------------
(* Bounds of the model *)

MaxLen == 3        \* longest list given to isListEqual / unique_lst
MaxVal == 2        \* list elements are 1..MaxVal
MaxRows == 2       \* most rows of a DataFrame
MaxMissing == 1    \* most required columns a DataFrame lacks
MaxExtra == 1      \* most columns besides the 10 fields and q-value
MaxAbs == 2        \* finite doubles are -MaxAbs..MaxAbs
MaxExp == 3        \* lg2 is given the powers of two up to 2^MaxExp

----------------------------------------------------------------------------
(* What a call gives its caller *)

NoResult == [kind |-> "none", exc |-> "", val |-> <<>>]

Return(v) == [kind |-> "return", exc |-> "", val |-> v]

Raise(e) == [kind |-> "raise", exc |-> e, val |-> <<>>]

\* sys.exit(code): the process terminates with the given code
die(code) == [kind |-> "exit", exc |-> "SystemExit", val |-> code]

sigint_handler == die(2)

----------------------------------------------------------------------------
(* Constants *)

DNA_ALPHABET == <<"A", "C", "G", "T">>

\* REV_COMPL with the entry of G mistyped
REV_COMPL_typo == [b \in {"A", "C", "G", "T"} |->
                     CASE b = "A" -> "T" [] b = "C" -> "G"
                       [] b = "G" -> "G" [] b = "T" -> "A"]

REV_COMPL == [b \in {"A", "C", "G", "T"} |->
                CASE b = "A" -> "T" [] b = "C" -> "G"
                  [] b = "G" -> "C" [] b = "T" -> "A"]

\* the dictionary access REV_COMPL[b]: a key that is absent raises KeyError
REV_COMPL_get(b) ==
    IF b \in DOMAIN REV_COMPL THEN Return(REV_COMPL[b]) ELSE Raise("KeyError")

Range(s) == {s[i] : i \in 1..Len(s)}

----------------------------------------------------------------------------
(* Doubles: finite values, NaN and the infinities, with IEEE 754           *)
(* arithmetic and comparisons (a comparison with NaN is false)             *)

Fin(v) == [cls |-> "fin", v |-> v]
NaN == [cls |-> "nan", v |-> 0]
PosInf == [cls |-> "+inf", v |-> 0]
NegInf == [cls |-> "-inf", v |-> 0]

FNeg(x) ==
    CASE x.cls = "fin" -> Fin(0 - x.v)
      [] x.cls = "nan" -> NaN
      [] x.cls = "+inf" -> NegInf
      [] x.cls = "-inf" -> PosInf

FAdd(x, y) ==
    CASE x.cls = "nan" \/ y.cls = "nan" -> NaN
      [] x.cls = "fin" /\ y.cls = "fin" -> Fin(x.v + y.v)
      [] x.cls = "fin" -> y
      [] y.cls = "fin" -> x
      [] x.cls = y.cls -> x
      [] OTHER -> NaN

FSub(x, y) == FAdd(x, FNeg(y))

FLt(x, y) ==
    CASE x.cls = "nan" \/ y.cls = "nan" -> FALSE
      [] x.cls = "fin" /\ y.cls = "fin" -> x.v < y.v
      [] x.cls = "-inf" -> y.cls # "-inf"
      [] y.cls = "+inf" -> x.cls # "+inf"
      [] OTHER -> FALSE

FGt(x, y) == FLt(y, x)

FLe(x, y) ==
    /\ x.cls # "nan"
    /\ y.cls # "nan"
    /\ ~FLt(y, x)

----------------------------------------------------------------------------
(* isListEqual *)

isListEqual(lst1, lst2) ==
    IF Len(lst1) = Len(lst2) /\ Range(lst1) = Range(lst2)
    THEN Return(TRUE)
    ELSE Return(FALSE)

----------------------------------------------------------------------------
(* almost_equal *)

almost_equal(value1, value2, slope) ==
    IF FGt(FSub(value1, slope), value2) \/ FLt(FAdd(value1, slope), value2)
    THEN Return(FALSE)
    ELSE Return(TRUE)

----------------------------------------------------------------------------
(* lg2 *)

RECURSIVE Log2(_)
\* the base-2 logarithm of a power of two
Log2(v) == IF v <= 1 THEN 0 ELSE 1 + Log2(v \div 2)

\* numpy.log: -inf at zero and NaN below zero (a warning, no exception)
np_log2(value) ==
    CASE value.cls = "nan" -> NaN
      [] value.cls = "+inf" -> PosInf
      [] value.cls = "-inf" -> NaN
      [] value.cls = "fin" /\ value.v > 0 -> Fin(Log2(value.v))
      [] value.cls = "fin" /\ value.v = 0 -> NegInf
      [] OTHER -> NaN

\* np.log(value) * LOG_FACTOR, LOG_FACTOR = 1/ln 2: the product is the
\* base-2 logarithm; -inf and NaN times the positive factor are unchanged
lg2(value) == Return(np_log2(value))

----------------------------------------------------------------------------
(* unique_lst *)

\* the size argument: None by default, or an integer
NoSize == [given |-> FALSE, n |-> 0]
Size(n) == [given |-> TRUE, n |-> n]

\* the loop with the size test written el_num >= size
RECURSIVE unique_loop_ge(_, _, _, _)
unique_loop_ge(lst, size, unique, el_num) ==
    IF lst = <<>> THEN unique
    ELSE LET el == Head(lst)
             isNew == el \notin Range(unique)
             unique2 == IF isNew THEN Append(unique, el) ELSE unique
             el_num2 == IF isNew THEN el_num + 1 ELSE el_num
         IN  IF size.given /\ el_num2 >= size.n
             THEN unique2
             ELSE unique_loop_ge(Tail(lst), size, unique2, el_num2)

RECURSIVE unique_loop(_, _, _, _)
\* the for loop over lst from the element Head(lst) on
unique_loop(lst, size, unique, el_num) ==
    IF lst = <<>> THEN unique
    ELSE LET el == Head(lst)
             isNew == el \notin Range(unique)
             unique2 == IF isNew THEN Append(unique, el) ELSE unique
             el_num2 == IF isNew THEN el_num + 1 ELSE el_num
         IN  IF size.given /\ el_num2 = size.n
             THEN unique2
             ELSE unique_loop(Tail(lst), size, unique2, el_num2)

unique_lst(lst, size) ==
    IF ~(Len(lst) > 0) THEN Raise("AssertionError")
    ELSE LET unique == unique_loop(lst, size, <<>>, 0)
         IN  IF ~(Len(unique) > 0) THEN Raise("AssertionError")
             ELSE Return(unique)

----------------------------------------------------------------------------
(* list_data *)

\* the columns list_data reads, in the order it reads them
ReadOrder == <<"sequence_name", "start", "stop", "score", "strand",
               "motif_id", "motif_alt_id", "p-value", "matched_sequence",
               "reference">>

\* A DataFrame: the set of its column names (no name twice) and its index,
\* one hit per row.
\* The cell of a column at the row of hit h is Cell(name, h), so that the
\* cells of different columns and of different hits differ.
DataFrame(columns, index) == [frame |-> TRUE, columns |-> columns, index |-> index]

\* an argument that is not a DataFrame (None, a list, ...)
NotADataFrame == [frame |-> FALSE, columns |-> {}, index |-> <<>>]

Cell(name, h) == <<name, h>>

\* data[name].to_list(): a new list, one entry per row, in row order
to_list(data, name) == [i \in 1..Len(data.index) |-> Cell(name, data.index[i])]

\* the first column of names (read in this order) that data lacks, 0 if none
FirstMissing(data, names) ==
    LET miss == {k \in 1..Len(names) : names[k] \notin data.columns}
    IN  IF miss = {} THEN 0 ELSE CHOOSE k \in miss : \A j \in miss : k <= j

\* the field order of the summary
FieldOrder == <<"motif_id", "motif_alt_id", "sequence_name", "start", "stop",
                "strand", "score", "p-value", "matched_sequence", "reference">>

\* list_data handing the columns read so far to the caller when it fails
list_data_keeps_partial(data, qvalue) ==
    IF ~(Cardinality(data.columns) <= 11) THEN Raise("AssertionError")
    ELSE IF ~(Cardinality(data.columns) >= 10) THEN Raise("AssertionError")
    ELSE LET k == FirstMissing(data, ReadOrder)
         IN  IF k # 0
             THEN [kind |-> "raise", exc |-> "KeyError",
                   val |-> [j \in 1..(k - 1) |-> to_list(data, ReadOrder[j])]]
             ELSE IF qvalue /\ "q-value" \notin data.columns
             THEN [kind |-> "raise", exc |-> "KeyError",
                   val |-> [j \in 1..10 |-> to_list(data, FieldOrder[j])]]
             ELSE LET cols == [j \in 1..10 |-> to_list(data, FieldOrder[j])]
                  IN  Return(IF qvalue THEN Append(cols, to_list(data, "q-value"))
                                       ELSE cols)

\* list_data building the summary in the order the columns are read
list_data_read_order(data, qvalue) ==
    IF ~(Cardinality(data.columns) <= 11) THEN Raise("AssertionError")
    ELSE IF ~(Cardinality(data.columns) >= 10) THEN Raise("AssertionError")
    ELSE IF FirstMissing(data, ReadOrder) # 0 THEN Raise("KeyError")
    ELSE IF qvalue /\ "q-value" \notin data.columns THEN Raise("KeyError")
    ELSE LET cols == [j \in 1..10 |-> to_list(data, ReadOrder[j])]
         IN  Return(IF qvalue THEN Append(cols, to_list(data, "q-value")) ELSE cols)

\* list_data from the column-count assertions on (data is a DataFrame)
list_data_frame(data, qvalue) ==
    IF ~(Cardinality(data.columns) <= 11) THEN Raise("AssertionError")
    ELSE IF ~(Cardinality(data.columns) >= 10) THEN Raise("AssertionError")
    ELSE IF FirstMissing(data, ReadOrder) # 0 THEN Raise("KeyError")
    ELSE IF qvalue /\ "q-value" \notin data.columns THEN Raise("KeyError")
    ELSE
      LET seqnames == to_list(data, "sequence_name")
          starts == to_list(data, "start")
          stops == to_list(data, "stop")
          scores == to_list(data, "score")
          strands == to_list(data, "strand")
          motifIDs == to_list(data, "motif_id")
          motifNames == to_list(data, "motif_alt_id")
          pvalues == to_list(data, "p-value")
          sequences == to_list(data, "matched_sequence")
          references == to_list(data, "reference")
          qvalues == to_list(data, "q-value")
          summary ==
              IF qvalue
              THEN <<motifIDs, motifNames, seqnames, starts, stops, strands,
                     scores, pvalues, sequences, references, qvalues>>
              ELSE <<motifIDs, motifNames, seqnames, starts, stops, strands,
                     scores, pvalues, sequences, references>>
          summary_len == Len(motifIDs)
      IN  IF ~(/\ summary_len = Len(data.index)
               /\ summary_len = Len(motifNames)
               /\ summary_len = Len(seqnames)
               /\ summary_len = Len(starts)
               /\ summary_len = Len(stops)
               /\ summary_len = Len(strands)
               /\ summary_len = Len(scores)
               /\ summary_len = Len(pvalues)
               /\ summary_len = Len(sequences)
               /\ (qvalue => summary_len = Len(qvalues)))
          THEN Raise("AssertionError")
          ELSE Return(summary)

\* list_data with die(1) placed before the raise
list_data_die_first(data, qvalue) ==
    IF ~data.frame THEN die(1) ELSE list_data_frame(data, qvalue)

list_data(data, qvalue) ==
    IF ~data.frame
    THEN Raise("NoDataFrameException")    \* die(1) follows the raise: never run
    ELSE list_data_frame(data, qvalue)

----------------------------------------------------------------------------
(* The calls: the function and the arguments Init draws *)

BoundedSeq(S, n) == UNION {[1..k -> S] : k \in 0..n}

Lists == BoundedSeq(1..MaxVal, MaxLen)

Sizes == {NoSize} \cup {Size(n) : n \in (0 - 1)..(MaxLen + 1)}

Doubles == {Fin(v) : v \in (0 - MaxAbs)..MaxAbs} \cup {NaN, PosInf, NegInf}

RECURSIVE Pow2(_)
Pow2(k) == IF k = 0 THEN 1 ELSE 2 * Pow2(k - 1)

Lg2Values == {Fin(v) : v \in (0 - MaxAbs)..0} \cup {Fin(Pow2(k)) : k \in 0..MaxExp}
               \cup {NaN, PosInf, NegInf}

Symbols == Range(DNA_ALPHABET) \cup {"N", "R", "Y", "a"}

Required == Range(FieldOrder)

OtherNames == <<"extra_1", "extra_2", "extra_3", "extra_4">>

Extras == {"q-value"} \cup {OtherNames[i] : i \in 1..MaxExtra}

ColumnSets == {(Required \ m) \cup e :
                 m \in {x \in SUBSET Required : Cardinality(x) <= MaxMissing},
                 e \in SUBSET Extras}

Frames == {DataFrame(c, idx) : c \in ColumnSets, idx \in BoundedSeq(1..MaxRows, MaxRows)}

Init ==
    /\ pc = "call"
    /\ ret = NoResult
    /\ \/ op = "isListEqual" /\ args \in [lst1 : Lists, lst2 : Lists]
       \/ op = "almost_equal"
          /\ args \in [value1 : Doubles, value2 : Doubles, slope : Doubles]
       \/ op = "lg2" /\ args \in [value : Lg2Values]
       \/ op = "unique_lst" /\ args \in [lst : Lists, size : Sizes]
       \/ op = "list_data"
          /\ args \in [data : Frames \cup {NotADataFrame}, qvalue : BOOLEAN]
       \/ op = "REV_COMPL" /\ args \in [base : Symbols]
       \/ op = "sigint_handler" /\ args = [signal |-> "SIGINT"]

\* the call ends: the caller has the result, or the process has exited
Finish(r) ==
    /\ ret' = r
    /\ pc' = IF r.kind = "exit" THEN "exited" ELSE "done"
    /\ UNCHANGED <<op, args>>

Call_isListEqual ==
    /\ pc = "call" /\ op = "isListEqual"
    /\ Finish(isListEqual(args.lst1, args.lst2))

Call_almost_equal ==
    /\ pc = "call" /\ op = "almost_equal"
    /\ Finish(almost_equal(args.value1, args.value2, args.slope))

Call_lg2 ==
    /\ pc = "call" /\ op = "lg2"
    /\ Finish(lg2(args.value))

Call_unique_lst ==
    /\ pc = "call" /\ op = "unique_lst"
    /\ Finish(unique_lst(args.lst, args.size))

Call_list_data ==
    /\ pc = "call" /\ op = "list_data"
    /\ Finish(list_data(args.data, args.qvalue))

Lookup_REV_COMPL ==
    /\ pc = "call" /\ op = "REV_COMPL"
    /\ Finish(REV_COMPL_get(args.base))

Call_sigint_handler ==
    /\ pc = "call" /\ op = "sigint_handler"
    /\ Finish(sigint_handler)

Next ==
    \/ Call_isListEqual
    \/ Call_almost_equal
    \/ Call_lg2
    \/ Call_unique_lst
    \/ Call_list_data
    \/ Lookup_REV_COMPL
    \/ Call_sigint_handler

Spec == Init /\ [][Next]_vars

Done(o) == pc = "done" /\ op = o

----------------------------------------------------------------------------
(* Properties *)

Min(a, b) == IF a <= b THEN a ELSE b

\* the number of positions of s that hold v
Count(s, v) == Cardinality({i \in 1..Len(s) : s[i] = v})

\* the position of the first occurrence of v in s
FirstIdx(s, v) == CHOOSE i \in 1..Len(s) : s[i] = v /\ \A j \in 1..(i - 1) : s[j] # v

\* the names of the summary's columns, in order
SummaryNames(qvalue) == IF qvalue THEN Append(FieldOrder, "q-value") ELSE FieldOrder

\* the error kind list_data uses for a column-count violation
CountViolationKind == list_data(DataFrame({}, <<>>), FALSE).exc

\* C1 (as claimed): list_data accepts a table only when its column count is
\* exactly 10 with qvalue false and exactly 11 with qvalue true; with any
\* other combination of column count and qvalue the call fails.
C1_CountConsistentWithQvalue ==
    Done("list_data") /\ ret.kind = "return" =>
        Cardinality(args.data.columns) = IF args.qvalue THEN 11 ELSE 10

\* C2: a table whose columns are exactly the fields (and q-value iff qvalue)
\* is accepted, and every summary list_data returns holds the columns in the
\* order motif_id, motif_alt_id, sequence_name, start, stop, strand, score,
\* p-value, matched_sequence, reference, then q-value iff qvalue is true
\* (11 columns, else 10), each column with one entry per row, the i-th entry
\* being row i's cell of that field.
C2_SummaryColumns ==
    Done("list_data") =>
        LET data == args.data
            names == SummaryNames(args.qvalue)
        IN  /\ (data.frame /\ data.columns = Range(names)) => ret.kind = "return"
            /\ ret.kind = "return" =>
                 /\ Len(ret.val) = IF args.qvalue THEN 11 ELSE 10
                 /\ Len(ret.val) = Len(names)
                 /\ \A k \in 1..Len(ret.val) :
                      /\ Len(ret.val[k]) = Len(data.index)
                      /\ \A i \in 1..Len(data.index) :
                           ret.val[k][i] = Cell(names[k], data.index[i])

C2_Witness ==
    /\ Done("list_data")
    /\ ret.kind = "return"
    /\ args.qvalue
    /\ Len(args.data.index) = 2
    /\ args.data.index[1] # args.data.index[2]

\* C3 (as claimed): when a required column name is absent from the table (one
\* of the 10 fields, or q-value with qvalue true), list_data fails with the
\* error kind it uses for column-count and length violations.
C3_MissingColumnSameErrorKind ==
    (/\ Done("list_data")
     /\ args.data.frame
     /\ ~(Range(SummaryNames(args.qvalue)) \subseteq args.data.columns))
    => (ret.kind = "raise" /\ ret.exc = CountViolationKind)

\* C4: a call of list_data leaves its arguments as they were, and it either
\* returns a summary or raises; when it raises (not a DataFrame, bad column
\* count, missing column, length mismatch) the caller gets no summary,
\* complete or partial.
C4_AtomicNoSideEffect ==
    [][(pc = "call" /\ op = "list_data") =>
          /\ args' = args
          /\ ret'.kind \in {"return", "raise"}
          /\ (ret'.kind = "raise" => ret'.val = <<>>)
          /\ (ret'.kind = "return" => Len(ret'.val) \in {10, 11})]_vars

C4_Witness ==
    /\ Done("list_data")
    /\ ret.kind = "raise"
    /\ ret.exc = "KeyError"
    /\ args.qvalue
    /\ Required \subseteq args.data.columns
    /\ Len(args.data.index) > 0

\* C5: no call of a function of the library other than the signal handler
\* terminates the process; list_data given an argument that is not a
\* DataFrame raises NoDataFrameException and die is not reached.
C5_NeverDies ==
    /\ op # "sigint_handler" => (pc # "exited" /\ ret.kind # "exit")
    /\ (Done("list_data") /\ ~args.data.frame) => ret = Raise("NoDataFrameException")

C5_Witness ==
    /\ Done("list_data")
    /\ ~args.data.frame
    /\ ret.kind = "raise"

\* C6: REV_COMPL is defined on exactly the four symbols of DNA_ALPHABET (not
\* on N or any other symbol), maps A to T, T to A, C to G and G to C, and
\* looking up the result of a lookup gives back the symbol.
C6_ComplementInvolution ==
    Done("REV_COMPL") =>
        /\ DOMAIN REV_COMPL = Range(DNA_ALPHABET)
        /\ ret.kind = "return" <=> args.base \in Range(DNA_ALPHABET)
        /\ ret.kind = "return" =>
             /\ <<args.base, ret.val>> \in
                  {<<"A", "T">>, <<"T", "A">>, <<"C", "G">>, <<"G", "C">>}
             /\ REV_COMPL_get(ret.val) = Return(args.base)

C6_Witness ==
    /\ Done("REV_COMPL")
    /\ args.base = "G"
    /\ ret = Return("C")

\* C7 (as claimed): for all values a, b and every tolerance, almost_equal(a,
\* b, tolerance) returns true if and only if a - tolerance <= b <= a +
\* tolerance.
C7_IffInClosedInterval ==
    Done("almost_equal") =>
        (ret.val <=> (/\ FLe(FSub(args.value1, args.slope), args.value2)
                      /\ FLe(args.value2, FAdd(args.value1, args.slope))))

\* C8 (as claimed): lg2 called with a value <= 0 fails with an error and
\* returns no numeric result.
C8_NonPositiveRaises ==
    (Done("lg2") /\ FLe(args.value, Fin(0))) => ret.kind = "raise"

\* C9 (as claimed): isListEqual returns True if and only if each value occurs
\* the same number of times in both lists.
C9_EqualAsMultisets ==
    Done("isListEqual") =>
        (ret.val <=> \A v \in 1..MaxVal :
                        Count(args.lst1, v) = Count(args.lst2, v))

\* what C10 says of every size: the result is a non-empty list without
\* repeats of values of lst, in the order of their first occurrence in lst,
\* and it holds the values that occur first
FirstDistinct(r, lst) ==
    /\ Len(r) > 0
    /\ Range(r) \subseteq Range(lst)
    /\ \A a, b \in 1..Len(r) : a < b => FirstIdx(lst, r[a]) < FirstIdx(lst, r[b])
    /\ \A v \in Range(lst) : FirstIdx(lst, v) < FirstIdx(lst, r[Len(r)]) => v \in Range(r)

\* C10 (as claimed): for a non-empty lst, unique_lst returns the distinct
\* values of lst in first-occurrence order: all of them when size is None,
\* and for any integer size at most size of them, the first min(size, number
\* of distinct values).
C10_AnySizeLimits ==
    (Done("unique_lst") /\ Len(args.lst) > 0) =>
        /\ ret.kind = "return"
        /\ FirstDistinct(ret.val, args.lst)
        /\ ~args.size.given => Range(ret.val) = Range(args.lst)
        /\ args.size.given =>
             /\ Len(ret.val) <= args.size.n
             /\ Len(ret.val) = Min(args.size.n, Cardinality(Range(args.lst)))

\* C10 (amended): for a non-empty lst, unique_lst returns the distinct values
\* of lst in first-occurrence order: all of them when size is None or an
\* integer below 1, and for a size of at least 1 the first min(size, number
\* of distinct values).
C10_PositiveSizeLimits ==
    (Done("unique_lst") /\ Len(args.lst) > 0) =>
        /\ ret.kind = "return"
        /\ FirstDistinct(ret.val, args.lst)
        /\ (~args.size.given \/ args.size.n < 1) => Range(ret.val) = Range(args.lst)
        /\ (args.size.given /\ args.size.n >= 1) =>
             Len(ret.val) = Min(args.size.n, Cardinality(Range(args.lst)))

C10_Witness ==
    /\ Done("unique_lst")
    /\ args.size.given
    /\ args.size.n = 0
    /\ Cardinality(Range(args.lst)) = 2
    /\ Len(args.lst) = 3
    /\ Len(ret.val) = 2

====
